---- MODULE Spec2Model ----
(***************************************************************************)
(* A model of src/lib/upstash.ts: the link store of a URL shortener kept   *)
(* in a remote Redis.  Every exported function is a caller-side sequence   *)
(* of remote commands; a caller is suspended at each `await`, so one       *)
(* action of the model is one remote request (a single command, or one     *)
(* pipelined batch) together with the local code that runs up to the next  *)
(* request.  Date.now() is read in the step that issues the request.       *)
(***************************************************************************)
EXTENDS Integers, Sequences, FiniteSets, TLC

VARIABLES
    db,            \* the Redis keyspace: collection name -> map (hash or sorted set)
    usage,         \* the scalar keys `usage:<hostname>` (value and expiry)
    now,           \* the clock read by Date.now()
    pc,            \* per caller: the await it is suspended at ("idle" between calls)
    call,          \* per caller: arguments and locals of the call it is in
    ret,           \* per caller: its last call, the path it took and what it returned
    calls,         \* number of calls started so far
    createdUnder,  \* history: <<hostname, key, userId>> of every addLink create
    rt             \* history: the keyspace before the last changeDomain batch

vars == <<db, usage, now, pc, call, ret, calls, createdUnder, rt>>

(***************************************************************************)
(* Bounds of the model.                                                    *)
(***************************************************************************)
MaxClock == 1
MaxCalls == 3
MaxConcCalls == 2
MaxDomainCalls == 5
MaxRandomCalls == 3
MaxRaceCalls == 3
MaxUsageCalls == 5

(***************************************************************************)
(* Input domains.                                                          *)
(***************************************************************************)
Callers == {"p1", "p2"}
PrimaryDomain == "dub.sh"
Hostnames == {"dub.sh", "ex.test"}
\* the keys nanoid() can return: 7 characters of the 62-symbol alphabet
NanoidKeys == {"abc1234", "welcome", "xyz7890"}
Keys == NanoidKeys
\* "" stands for an argument that was left out: `key ? a : b`, `title || x`
\* and `userId ? a : b` take the same branch for undefined and for ""
NoKey == ""
NoTitle == ""
NoUser == ""
Users == {"u1"}
CreateUrl == "https://example.com"
EditUrl == "https://example.org"
CreateTitles == {NoTitle, "T1"}
EditTitle == "T2"
EditTimestamps == {1}
\* billingCycleStart?: Date, as the instant it denotes
NoDate == [t |-> "undefined"]
BillingCycleStarts == {NoDate, [t |-> "date", v |-> 1]}
\* the instants of the model clock are 3600 s apart (Date.now() is in ms)
ClockUnit == 3600
\* the month the clock is in: the instant of `new Date(y, m, 1)` and of
\* `new Date(y, m + 1, 0)`, the start of its last day.  Instant 0 is 23:00
\* on the day before the last day of a 30-day month.
Month == [firstDay |-> 0 - 695, lastDay |-> 1]
\* what a request carries for a click: geo, user agent, referer
Requests == {[geo |-> "US", ua |-> "Mozilla/5.0", referer |-> "https://t.co"]}
\* process.env.VERCEL === "1"
Vercel == TRUE

(***************************************************************************)
(* Collaborators that live outside src/.                                   *)
(***************************************************************************)
\* RESERVED_KEYS of @/lib/constants
RESERVED_KEYS == {"welcome"}

\* getTitleFromUrl of @/lib/utils: the title of the page behind the url
getTitleFromUrl(url) ==
    IF url = CreateUrl THEN "Example Domain" ELSE "Untitled"

\* LOCALHOST_GEO_DATA of @/lib/constants
LOCALHOST_GEO_DATA == "localhost"

(***************************************************************************)
(* JavaScript values that the functions return and compare.                *)
(***************************************************************************)
Null == [t |-> "null"]
Pending == [t |-> "pending"]
Thrown == [t |-> "throws"]
Err == [t |-> "error"]
Ok == [t |-> "string", v |-> "OK"]
Num(n) == [t |-> "number", v |-> n]
Str(s) == [t |-> "string", v |-> s]
Obj(response, key) == [t |-> "object", response |-> response, key |-> key]
Arr(s) == [t |-> "array", v |-> s]

\* `x === 1`
StrictEquals1(x) == x.t = "number" /\ x.v = 1

\* `s ? ... : ...` on an optional string
Truthy(s) == s # ""

\* `if (x)` on what redis.get returned: null and 0 are falsy
TruthyValue(x) == x.t # "null" /\ ~(x.t = "number" /\ x.v = 0)

(***************************************************************************)
(* The keyspace.  A collection name `${hostname}:family[:suffix]` is the   *)
(* triple <<hostname, family, suffix>>; a collection that does not exist   *)
(* is the empty map (Redis drops empty hashes and sorted sets).            *)
(***************************************************************************)
EmptyMap == <<>>

LinksName(hostname) == <<hostname, "links", "">>
\* `${hostname}:links:timestamps${userId ? `:${userId}` : ""}`
TimestampsName(hostname, userId) ==
    <<hostname, "links:timestamps", IF Truthy(userId) THEN userId ELSE "">>
ClicksName(hostname, key) == <<hostname, "clicks", key>>
RootClicksName(hostname) == <<hostname, "root:clicks", "">>

Names ==
    {LinksName(h) : h \in Hostnames}
    \cup {TimestampsName(h, u) : h \in Hostnames, u \in Users \cup {NoUser}}
    \cup {ClicksName(h, k) : h \in Hostnames, k \in Keys}
    \cup {RootClicksName(h) : h \in Hostnames}

Put(m, k, v) == [x \in DOMAIN m \cup {k} |-> IF x = k THEN v ELSE m[x]]
Del(m, k) == [x \in DOMAIN m \ {k} |-> m[x]]
Has(m, k) == k \in DOMAIN m
Exists(d, name) == DOMAIN d[name] # {}

\* Every command yields the keyspace after it and its reply.
Reply(d, res) == [db |-> d, res |-> res]

\* HSETNX: sets the field only if it is not there; 1 if it was set, else 0
HSetNX(d, name, field, value) ==
    IF Has(d[name], field)
    THEN Reply(d, Num(0))
    ELSE Reply([d EXCEPT ![name] = Put(@, field, value)], Num(1))

\* HSET: unconditional overwrite; the number of fields that were new
HSet(d, name, field, value) ==
    Reply([d EXCEPT ![name] = Put(@, field, value)],
          Num(IF Has(d[name], field) THEN 0 ELSE 1))

\* HEXISTS
HExists(d, name, field) == Reply(d, Num(IF Has(d[name], field) THEN 1 ELSE 0))

\* HDEL: the number of fields removed
HDel(d, name, field) ==
    Reply([d EXCEPT ![name] = Del(@, field)],
          Num(IF Has(d[name], field) THEN 1 ELSE 0))

\* ZADD: inserts the member or updates its score; the number of new members
ZAdd(d, name, score, member) ==
    Reply([d EXCEPT ![name] = Put(@, member, score)],
          Num(IF Has(d[name], member) THEN 0 ELSE 1))

\* ZREM: the number of members removed
ZRem(d, name, member) ==
    Reply([d EXCEPT ![name] = Del(@, member)],
          Num(IF Has(d[name], member) THEN 1 ELSE 0))

\* ZCARD
ZCard(d, name) == Reply(d, Num(Cardinality(DOMAIN d[name])))

\* RENAME: fails if the source does not exist; replaces the destination
Rename(d, src, dst) ==
    IF ~Exists(d, src) THEN Reply(d, Err)
    ELSE IF src = dst THEN Reply(d, Ok)
    ELSE Reply([d EXCEPT ![dst] = d[src], ![src] = EmptyMap], Ok)

\* byte order of the members of a timestamp index (ties of score)
MemberRank(k) ==
    CASE k = "abc1234" -> 1
      [] k = "welcome" -> 2
      [] k = "xyz7890" -> 3
      [] OTHER -> 0

\* ZRANGE 0 -1: the members by increasing score, ties by member
RECURSIVE ZRangeSeq(_)
ZRangeSeq(z) ==
    IF DOMAIN z = {} THEN <<>>
    ELSE LET first == CHOOSE m \in DOMAIN z :
                        \A o \in DOMAIN z :
                            \/ z[m] < z[o]
                            \/ z[m] = z[o] /\ MemberRank(m) <= MemberRank(o)
         IN  <<first>> \o ZRangeSeq(Del(z, first))

ZRange(d, name) == Reply(d, Arr(ZRangeSeq(d[name])))

\* ZRANGE 0 -1 REV: by decreasing score, ties by decreasing member
RECURSIVE Reverse(_)
Reverse(q) == IF q = <<>> THEN <<>> ELSE Append(Reverse(Tail(q)), Head(q))

ZRevRange(d, name) == Reply(d, Arr(Reverse(ZRangeSeq(d[name]))))

\* ZCOUNT min max: the members with min <= score <= max
ZCount(d, name, min, max) ==
    Reply(d, Num(Cardinality({m \in DOMAIN d[name] :
                                 min <= d[name][m] /\ d[name][m] <= max})))

\* HMGET as the client returns it: null when no field exists, otherwise an
\* object that maps every requested field to its value or to null
HMGet(d, name, fields) ==
    IF \A i \in 1..Len(fields) : ~Has(d[name], fields[i])
    THEN Reply(d, Null)
    ELSE Reply(d, [t |-> "object",
                   v |-> [f \in {fields[i] : i \in 1..Len(fields)} |->
                            IF Has(d[name], f)
                            THEN [t |-> "object", v |-> d[name][f]]
                            ELSE Null]])

\* The scalar keys with a time to live: GET and SETEX.
UsageTTL == 3600
CacheEntry(value, expires) == [t |-> "entry", value |-> value, expires |-> expires]
Get(u, hostname, t) ==
    IF u[hostname].t = "entry" /\ t < u[hostname].expires
    THEN u[hostname].value ELSE Null
SetEx(u, hostname, ttl, value, t) ==
    [u EXCEPT ![hostname] = CacheEntry(value, t + ttl \div ClockUnit)]

\* One command of a pipeline, applied to the keyspace.
Apply(d, cmd) ==
    CASE cmd.op = "hdel" -> HDel(d, cmd.name, cmd.field)
      [] cmd.op = "hset" -> HSet(d, cmd.name, cmd.field, cmd.value)
      [] cmd.op = "zrem" -> ZRem(d, cmd.name, cmd.member)
      [] cmd.op = "zadd" -> ZAdd(d, cmd.name, cmd.score, cmd.member)
      [] cmd.op = "rename" -> Rename(d, cmd.src, cmd.dst)
      [] cmd.op = "zcount" -> ZCount(d, cmd.name, cmd.min, cmd.max)

\* pipeline.exec(): the commands run in order, a failing command does not
\* stop or undo the others; the replies come back in order.
RECURSIVE PipelineRun(_, _, _)
PipelineRun(d, cmds, replies) ==
    IF cmds = <<>> THEN Reply(d, replies)
    ELSE LET r == Apply(d, Head(cmds))
         IN  PipelineRun(r.db, Tail(cmds), Append(replies, r.res))

\* exec() throws when any reply is an error, otherwise returns the replies
PipelineExec(d, cmds) ==
    LET r == PipelineRun(d, cmds, <<>>)
    IN  [db |-> r.db,
         res |-> IF \E i \in 1..Len(r.res) : r.res[i].t = "error"
                 THEN Thrown ELSE Arr(r.res)]

(***************************************************************************)
(* The functions of src/lib/upstash.ts, as operators on the keyspace.      *)
(***************************************************************************)
LinkRecord(url, title, timestamp) ==
    [url |-> url, title |-> title, timestamp |-> timestamp]

\* setKey with hset in place of hsetnx
setKeyOverwrite(d, hostname, key, url, title, t) ==
    HSet(d, LinksName(hostname), key,
         LinkRecord(url, IF Truthy(title) THEN title ELSE getTitleFromUrl(url), t))

\* setKey: create-if-absent of the link record, stamped with Date.now()
setKey(d, hostname, key, url, title, t) ==
    HSetNX(d, LinksName(hostname), key,
           LinkRecord(url, IF Truthy(title) THEN title ELSE getTitleFromUrl(url), t))

\* checkIfKeyExists probing the timestamp index in place of the hash
checkIfKeyExistsInIndex(d, hostname, key) ==
    IF hostname = PrimaryDomain /\ key \in RESERVED_KEYS
    THEN Reply(d, Num(1))
    ELSE HExists(d, TimestampsName(hostname, NoUser), key)

\* checkIfKeyExists: reserved keys of dub.sh always exist
checkIfKeyExists(d, hostname, key) ==
    IF hostname = PrimaryDomain /\ key \in RESERVED_KEYS
    THEN Reply(d, Num(1))
    ELSE HExists(d, LinksName(hostname), key)

\* the guard of addLink applied to the other hostnames
AddLinkReservedOtherHost(hostname, key) ==
    hostname # PrimaryDomain /\ Truthy(key) /\ key \in RESERVED_KEYS

\* the guard at the top of addLink
AddLinkReserved(hostname, key) ==
    hostname = PrimaryDomain /\ Truthy(key) /\ key \in RESERVED_KEYS

\* setRandomKey that never takes the recursive call
SetRandomKeyCollidedNever(response) == FALSE

\* setRandomKey's test `response === 0`: the key already exists
SetRandomKeyCollided(response) == response.t = "number" /\ response.v = 0

\* what setRandomKey returns once hsetnx answered non-zero
SetRandomKeyResult(response, key) == Obj(response.v, key)

\* addLink's test as `response !== null`
AddLinkCreatedNotNull(response) == response.t # "null"

\* addLink's test of `response` before it writes the timestamp index
AddLinkCreated(response) == StrictEquals1(response)

\* addLink's zadd into the timestamp index: `member: key`, the argument
AddLinkIndex(d, hostname, key, userId, t) ==
    ZAdd(d, TimestampsName(hostname, userId), t, key)

\* editLink with key === newKey that also re-scores the primary index
EditLinkSameKeyReindex(d, hostname, key, url, title, timestamp) ==
    LET r == HSet(d, LinksName(hostname), key, LinkRecord(url, title, timestamp))
    IN  Reply(ZAdd(r.db, TimestampsName(hostname, NoUser), timestamp, key).db, r.res)

\* editLink with key === newKey
EditLinkSameKey(d, hostname, key, url, title, timestamp) ==
    HSet(d, LinksName(hostname), key, LinkRecord(url, title, timestamp))

\* the guard of editLink's rename branch on reserved keys
EditLinkReserved(hostname, newKey) ==
    hostname = PrimaryDomain /\ newKey \in RESERVED_KEYS

\* editLink's pipeline without the zrem of the old key
EditLinkPipelineNoZrem(hostname, key, newKey, url, title, timestamp, userId, numClicks) ==
    << [op |-> "hdel", name |-> LinksName(hostname), field |-> key],
       [op |-> "hset", name |-> LinksName(hostname), field |-> newKey,
        value |-> LinkRecord(url, title, timestamp)],
       [op |-> "zadd", name |-> TimestampsName(hostname, userId),
        score |-> timestamp, member |-> newKey] >>
    \o (IF numClicks > 0
        THEN << [op |-> "rename", src |-> ClicksName(hostname, key),
                 dst |-> ClicksName(hostname, newKey)] >>
        ELSE << >>)

\* the pipeline editLink builds when key !== newKey
EditLinkPipeline(hostname, key, newKey, url, title, timestamp, userId, numClicks) ==
    << [op |-> "hdel", name |-> LinksName(hostname), field |-> key],
       [op |-> "hset", name |-> LinksName(hostname), field |-> newKey,
        value |-> LinkRecord(url, title, timestamp)],
       [op |-> "zrem", name |-> TimestampsName(hostname, userId), member |-> key],
       [op |-> "zadd", name |-> TimestampsName(hostname, userId),
        score |-> timestamp, member |-> newKey] >>
    \o (IF numClicks > 0
        THEN << [op |-> "rename", src |-> ClicksName(hostname, key),
                 dst |-> ClicksName(hostname, newKey)] >>
        ELSE << >>)

\* the member recordClick writes
ClickMember(req, t) ==
    [geo |-> IF Vercel THEN req.geo ELSE LOCALHOST_GEO_DATA,
     ua |-> req.ua, referer |-> req.referer, timestamp |-> t]

\* recordClick: one zadd, into the key's log or the root log
recordClick(d, hostname, req, key, t) ==
    ZAdd(d, IF Truthy(key) THEN ClicksName(hostname, key) ELSE RootClicksName(hostname),
         t, ClickMember(req, t))

\* getUsage's window: [billingCycleStart, now], or the current month from
\* its first day to the start of its last day
UsageWindow(billingCycleStart, t) ==
    IF billingCycleStart.t = "date"
    THEN [firstDay |-> billingCycleStart.v, lastDay |-> t]
    ELSE [firstDay |-> Month.firstDay, lastDay |-> Month.lastDay]

\* getUsage's pipeline with a zcount of the root click log added
GetUsagePipelineWithRoot(hostname, links, firstDay, lastDay) ==
    [i \in 1..Len(links) |->
        [op |-> "zcount", name |-> ClicksName(hostname, links[i]),
         min |-> firstDay, max |-> lastDay]]
    \o << [op |-> "zcount", name |-> RootClicksName(hostname),
           min |-> firstDay, max |-> lastDay] >>

\* getUsage's pipeline: one zcount per key of the timestamp index
GetUsagePipeline(hostname, links, firstDay, lastDay) ==
    [i \in 1..Len(links) |->
        [op |-> "zcount", name |-> ClicksName(hostname, links[i]),
         min |-> firstDay, max |-> lastDay]]

\* results.reduce((acc, curr) => acc + curr, 0)
RECURSIVE ReduceSum(_)
ReduceSum(results) ==
    IF results = <<>> THEN 0 ELSE Head(results).v + ReduceSum(Tail(results))

\* getLinksForProject's `keys.map((key) => ({ key, ...metadata[key] }))`:
\* reading a property of null throws; spreading null adds no field
GetLinksResult(keys, metadata) ==
    IF metadata.t = "null" THEN Thrown
    ELSE Arr([i \in 1..Len(keys) |-> [key |-> keys[i], fields |-> metadata.v[keys[i]]]])

\* changeDomain's pipeline without the rename of the timestamp index
ChangeDomainPipelineNoIndex(hostname, newHostname, keys) ==
    << [op |-> "rename", src |-> LinksName(hostname), dst |-> LinksName(newHostname)],
       [op |-> "rename", src |-> RootClicksName(hostname),
        dst |-> RootClicksName(newHostname)] >>
    \o [i \in 1..Len(keys) |->
          [op |-> "rename", src |-> ClicksName(hostname, keys[i]),
           dst |-> ClicksName(newHostname, keys[i])]]

\* the pipeline changeDomain builds from the keys it enumerated
ChangeDomainPipeline(hostname, newHostname, keys) ==
    << [op |-> "rename", src |-> LinksName(hostname), dst |-> LinksName(newHostname)],
       [op |-> "rename", src |-> TimestampsName(hostname, NoUser),
        dst |-> TimestampsName(newHostname, NoUser)],
       [op |-> "rename", src |-> RootClicksName(hostname),
        dst |-> RootClicksName(newHostname)] >>
    \o [i \in 1..Len(keys) |->
          [op |-> "rename", src |-> ClicksName(hostname, keys[i]),
           dst |-> ClicksName(newHostname, keys[i])]]

\* changeDomain without the try/catch: the error of exec() escapes
ChangeDomainResultUncaught(res) == res

\* changeDomain's try/catch around exec()
ChangeDomainResult(res) == IF res.t = "throws" THEN Null ELSE res

(***************************************************************************)
(* The state machine.                                                      *)
(***************************************************************************)
NoRT == [stage |-> 0]
NoCall == [op |-> "none"]
\* no call has returned yet, or the caller is inside a call
NoReturn == [op |-> "none", path |-> "", value |-> Pending]
\* the call `op` returned `value` along `path`
Returned(op, path, value) == [op |-> op, path |-> path, value |-> value]

Init ==
    /\ db = [n \in Names |-> EmptyMap]
    /\ usage = [h \in Hostnames |-> Null]
    /\ now = 0
    /\ pc = [p \in Callers |-> "idle"]
    /\ call = [p \in Callers |-> NoCall]
    /\ ret = [p \in Callers |-> NoReturn]
    /\ calls = 0
    /\ createdUnder = {}
    /\ rt = NoRT

\* the caller's function returns; `summary` says what and how
Return(p, summary) ==
    /\ pc' = [pc EXCEPT ![p] = "idle"]
    /\ call' = [call EXCEPT ![p] = NoCall]
    /\ ret' = [ret EXCEPT ![p] = summary]

\* the caller awaits its next request with the call record c
Suspend(p, at, c) ==
    /\ pc' = [pc EXCEPT ![p] = at]
    /\ call' = [call EXCEPT ![p] = c]
    /\ ret' = [ret EXCEPT ![p] = NoReturn]

\* addLink after `response` is known: zadd next, or return null
AddLinkAfterCreate(p, c, response, path) ==
    IF AddLinkCreated(response)
    THEN Suspend(p, "addLink_zadd", c)
    ELSE Return(p, [op |-> "addLink", path |-> path, value |-> Null,
                    hostname |-> c.hostname, key |-> c.written,
                    before |-> IF path = "random" THEN c.before ELSE {},
                    collided |-> c.collided])

\* one round of setRandomKey with the call record c: nanoid(), setKey, and
\* either the recursive call (response === 0) or the return into addLink
SetRandomKeyAttemptKey(p, c, key) ==
    LET r == setKey(db, c.hostname, key, c.url, c.title, now)
    IN  /\ db' = r.db
        /\ IF SetRandomKeyCollided(r.res)
           THEN /\ createdUnder' = createdUnder
                /\ Suspend(p, "setRandomKey", [c EXCEPT !.collided = TRUE])
           ELSE /\ createdUnder' =
                      IF r.res.v = 1
                      THEN createdUnder \cup {<<c.hostname, key, c.userId>>}
                      ELSE createdUnder
                /\ AddLinkAfterCreate(p, [c EXCEPT !.written = key, !.stamp = now],
                                      SetRandomKeyResult(r.res, key), "random")

\* nanoid() returns any key of its key space
SetRandomKeyAttempt(p, c) ==
    \E key \in NanoidKeys : SetRandomKeyAttemptKey(p, c, key)

\* addLink(hostname, url, key?, title?, userId?) up to its first reply
AddLinkCall(p, hostname, url, key, title, userId) ==
    LET c == [op |-> "addLink", hostname |-> hostname, url |-> url, key |-> key,
              title |-> title, userId |-> userId, written |-> NoKey, stamp |-> now,
              before |-> DOMAIN db[LinksName(hostname)], collided |-> FALSE]
    IN  /\ pc[p] = "idle"
        /\ rt' = NoRT
        /\ UNCHANGED <<usage, now>>
        /\ IF AddLinkReserved(hostname, key)
           THEN /\ Return(p, [op |-> "addLink", path |-> "reserved", value |-> Null,
                              hostname |-> hostname, key |-> key, before |-> {}])
                /\ UNCHANGED <<db, createdUnder>>
           ELSE IF Truthy(key)
           THEN LET r == setKey(db, hostname, key, url, title, now)
                IN  /\ AddLinkAfterCreate(p, [c EXCEPT !.written = key], r.res, "exists")
                    /\ db' = r.db
                    /\ createdUnder' =
                          IF r.res.v = 1
                          THEN createdUnder \cup {<<hostname, key, userId>>}
                          ELSE createdUnder
           ELSE SetRandomKeyAttempt(p, c)

\* setRandomKey's recursive call after a collision, drawing `key`
SetRandomKeyRetryKey(p, key) ==
    /\ pc[p] = "setRandomKey"
    /\ rt' = NoRT
    /\ UNCHANGED <<usage, now>>
    /\ SetRandomKeyAttemptKey(p, call[p], key)

\* setRandomKey's recursive call after a collision
SetRandomKeyRetry(p) == \E key \in NanoidKeys : SetRandomKeyRetryKey(p, key)

\* addLink's zadd into the timestamp index, and its return
AddLinkZadd(p) ==
    LET c == call[p]
        r == AddLinkIndex(db, c.hostname, c.key, c.userId, now)
    IN  /\ pc[p] = "addLink_zadd"
        /\ db' = r.db
        /\ Return(p, [op |-> "addLink", path |-> "created", value |-> r.res,
                      hostname |-> c.hostname, key |-> c.written,
                      record |-> LinkRecord(c.url,
                                    IF Truthy(c.title) THEN c.title
                                    ELSE getTitleFromUrl(c.url), c.stamp)])
        /\ rt' = NoRT
        /\ UNCHANGED <<usage, now, createdUnder>>

\* one round of getRandomKey: nanoid(), hexists, recurse or return the key
GetRandomKeyAttempt(p, c) ==
    \E key \in NanoidKeys :
        LET r == HExists(db, LinksName(c.hostname), key)
        IN  /\ IF StrictEquals1(r.res)
               THEN Suspend(p, "getRandomKey", c)
               ELSE Return(p, [op |-> "getRandomKey", path |-> "free",
                               value |-> Str(key), hostname |-> c.hostname,
                               before |-> c.before])
            /\ UNCHANGED <<db, usage, now, createdUnder, rt>>

GetRandomKeyCall(p, hostname) ==
    /\ pc[p] = "idle"
    /\ GetRandomKeyAttempt(p, [op |-> "getRandomKey", hostname |-> hostname,
                               before |-> DOMAIN db[LinksName(hostname)]])

GetRandomKeyRetry(p) ==
    /\ pc[p] = "getRandomKey"
    /\ GetRandomKeyAttempt(p, call[p])

\* editLink up to its first reply: the same-key hset, or the reserved and
\* existence checks of the rename branch
EditLinkCall(p, hostname, key, newKey, url, title, timestamp, userId) ==
    LET c == [op |-> "editLink", hostname |-> hostname, key |-> key,
              newKey |-> newKey, url |-> url, title |-> title,
              timestamp |-> timestamp, userId |-> userId, numClicks |-> 0]
    IN  /\ pc[p] = "idle"
        /\ rt' = NoRT
        /\ UNCHANGED <<usage, now, createdUnder>>
        /\ IF key = newKey
           THEN LET r == EditLinkSameKey(db, hostname, key, url, title, timestamp)
                IN  /\ Return(p, Returned("editLink", "same", r.res))
                    /\ db' = r.db
           ELSE IF EditLinkReserved(hostname, newKey)
           THEN /\ Return(p, Returned("editLink", "reserved", Null))
                /\ db' = db
           ELSE LET keyExists == checkIfKeyExists(db, hostname, newKey).res
                IN  /\ IF StrictEquals1(keyExists)
                       THEN Return(p, Returned("editLink", "exists", Null))
                       ELSE Suspend(p, "editLink_zcard", c)
                    /\ db' = db

\* editLink's zcard of the old key's click log
EditLinkZcard(p) ==
    LET c == call[p]
        numClicks == ZCard(db, ClicksName(c.hostname, c.key)).res.v
    IN  /\ pc[p] = "editLink_zcard"
        /\ Suspend(p, "editLink_exec", [c EXCEPT !.numClicks = numClicks])
        /\ rt' = NoRT
        /\ UNCHANGED <<db, usage, now, createdUnder>>

\* editLink's pipeline; a failed command makes exec(), and editLink, throw
EditLinkExec(p) ==
    LET c == call[p]
        r == PipelineExec(db, EditLinkPipeline(c.hostname, c.key, c.newKey, c.url,
                                  c.title, c.timestamp, c.userId, c.numClicks))
    IN  /\ pc[p] = "editLink_exec"
        /\ db' = r.db
        /\ Return(p, Returned("editLink", "renamed", r.res))
        /\ createdUnder' = {x \in createdUnder : ~(x[1] = c.hostname /\ x[2] = c.key)}
        /\ rt' = NoRT
        /\ UNCHANGED <<usage, now>>

\* recordClick(hostname, req, key?)
RecordClickCall(p, hostname, req, key) ==
    LET r == recordClick(db, hostname, req, key, now)
    IN  /\ pc[p] = "idle"
        /\ db' = r.db
        /\ Return(p, Returned("recordClick", IF Truthy(key) THEN "key" ELSE "root", r.res))
        /\ rt' = NoRT
        /\ UNCHANGED <<usage, now, createdUnder>>

\* changeDomain's zrange of the primary timestamp index
ChangeDomainCall(p, hostname, newHostname) ==
    LET keys == ZRange(db, TimestampsName(hostname, NoUser)).res.v
    IN  /\ pc[p] = "idle"
        /\ Suspend(p, "changeDomain_exec",
                   [op |-> "changeDomain", hostname |-> hostname,
                    newHostname |-> newHostname, keys |-> keys])
        /\ rt' = IF rt.stage = 1 THEN rt ELSE NoRT
        /\ UNCHANGED <<db, usage, now, createdUnder>>

\* changeDomain's pipeline of renames inside try/catch.  rt keeps the
\* keyspace as it was before the batch of a first call (stage 1) and marks
\* the batch of the call that directly follows it in the other direction
\* (stage 2).
ChangeDomainExec(p) ==
    LET c == call[p]
        r == PipelineExec(db, ChangeDomainPipeline(c.hostname, c.newHostname, c.keys))
    IN  /\ pc[p] = "changeDomain_exec"
        /\ db' = r.db
        /\ Return(p, Returned("changeDomain",
                              IF r.res.t = "throws" THEN "caught" ELSE "renamed",
                              ChangeDomainResult(r.res)))
        /\ rt' = IF /\ rt.stage = 1
                    /\ rt.hostname = c.newHostname
                    /\ rt.newHostname = c.hostname
                 THEN [rt EXCEPT !.stage = 2]
                 ELSE [stage |-> 1, hostname |-> c.hostname,
                       newHostname |-> c.newHostname, before |-> db]
        /\ UNCHANGED <<usage, now, createdUnder>>

\* getUsage up to the reply of redis.get: the cached value, or the window
\* and the zrange request
GetUsageCall(p, hostname, billingCycleStart) ==
    LET cachedUsage == Get(usage, hostname, now)
        window == UsageWindow(billingCycleStart, now)
    IN  /\ pc[p] = "idle"
        /\ IF TruthyValue(cachedUsage)
           THEN Return(p, [op |-> "getUsage", path |-> "cached", value |-> cachedUsage,
                           hostname |-> hostname, cachedUsage |-> cachedUsage])
           ELSE Suspend(p, "getUsage_zrange",
                        [op |-> "getUsage", hostname |-> hostname,
                         cachedUsage |-> cachedUsage, firstDay |-> window.firstDay,
                         lastDay |-> window.lastDay, links |-> <<>>, usage |-> 0])
        /\ rt' = NoRT
        /\ UNCHANGED <<db, usage, now, createdUnder>>

\* getUsage's zrange of the primary index; without links there is no pipeline
GetUsageZrange(p) ==
    LET c == call[p]
        links == ZRange(db, TimestampsName(c.hostname, NoUser)).res.v
    IN  /\ pc[p] = "getUsage_zrange"
        /\ Suspend(p, IF Len(links) > 0 THEN "getUsage_exec" ELSE "getUsage_setex",
                   [c EXCEPT !.links = links])
        /\ rt' = NoRT
        /\ UNCHANGED <<db, usage, now, createdUnder>>

\* getUsage's pipeline of zcounts and the sum of its replies
GetUsageExec(p) ==
    LET c == call[p]
        r == PipelineExec(db, GetUsagePipeline(c.hostname, c.links, c.firstDay, c.lastDay))
    IN  /\ pc[p] = "getUsage_exec"
        /\ Suspend(p, "getUsage_setex", [c EXCEPT !.usage = ReduceSum(r.res.v)])
        /\ rt' = NoRT
        /\ UNCHANGED <<db, usage, now, createdUnder>>

\* getUsage's setex of the sum, and its return
GetUsageSetex(p) ==
    LET c == call[p]
    IN  /\ pc[p] = "getUsage_setex"
        /\ usage' = SetEx(usage, c.hostname, UsageTTL, Num(c.usage), now)
        /\ Return(p, [op |-> "getUsage", path |-> "computed", value |-> Num(c.usage),
                      hostname |-> c.hostname, cachedUsage |-> c.cachedUsage,
                      firstDay |-> c.firstDay, lastDay |-> c.lastDay])
        /\ rt' = NoRT
        /\ UNCHANGED <<db, now, createdUnder>>

\* getLinksForProject up to the reply of zrange: [] for an empty index
GetLinksForProjectCall(p, slug, userId) ==
    LET keys == ZRevRange(db, TimestampsName(slug, userId)).res.v
    IN  /\ pc[p] = "idle"
        /\ IF Len(keys) = 0
           THEN Return(p, [op |-> "getLinksForProject", path |-> "empty",
                           value |-> Arr(<<>>), slug |-> slug, userId |-> userId])
           ELSE Suspend(p, "getLinksForProject_hmget",
                        [op |-> "getLinksForProject", slug |-> slug,
                         userId |-> userId, keys |-> keys])
        /\ rt' = IF rt.stage = 1 THEN rt ELSE NoRT
        /\ UNCHANGED <<db, usage, now, createdUnder>>

\* getLinksForProject's hmget and the links it builds
GetLinksForProjectHmget(p) ==
    LET c == call[p]
        metadata == HMGet(db, LinksName(c.slug), c.keys).res
        links == GetLinksResult(c.keys, metadata)
    IN  /\ pc[p] = "getLinksForProject_hmget"
        /\ Return(p, [op |-> "getLinksForProject",
                      path |-> IF links.t = "throws" THEN "threw" ELSE "listed",
                      value |-> links, slug |-> c.slug, userId |-> c.userId])
        /\ rt' = IF rt.stage = 1 THEN rt ELSE NoRT
        /\ UNCHANGED <<db, usage, now, createdUnder>>

\* the clock advances
Tick ==
    /\ now < MaxClock
    /\ now' = now + 1
    /\ UNCHANGED <<db, usage, pc, call, ret, calls, createdUnder, rt>>

(***************************************************************************)
(* Calls with their arguments drawn from the input domains.                *)
(***************************************************************************)
\* `userId?: string // only applicable for dub.sh links`
UsersOf(hostname) == IF hostname = PrimaryDomain THEN Users \cup {NoUser} ELSE {NoUser}

AddLink(p, hostnames, keys, titles, users) ==
    \E hostname \in hostnames, key \in keys, title \in titles :
        \E userId \in UsersOf(hostname) \cap users :
            AddLinkCall(p, hostname, CreateUrl, key, title, userId)

EditLink(p, hostnames, keys, users) ==
    \E hostname \in hostnames, key \in keys, newKey \in keys,
       timestamp \in EditTimestamps :
        \E userId \in UsersOf(hostname) \cap users :
            EditLinkCall(p, hostname, key, newKey, EditUrl, EditTitle, timestamp, userId)

RecordClick(p, hostnames, keys) ==
    \E hostname \in hostnames, req \in Requests, key \in keys :
        RecordClickCall(p, hostname, req, key)

GetRandomKey(p) ==
    \E hostname \in Hostnames : GetRandomKeyCall(p, hostname)

ChangeDomain(p) ==
    \E hostname \in Hostnames, newHostname \in Hostnames :
        ChangeDomainCall(p, hostname, newHostname)

GetUsage(p, hostnames) ==
    \E hostname \in hostnames, billingCycleStart \in BillingCycleStarts :
        GetUsageCall(p, hostname, billingCycleStart)

GetLinksForProject(p, slugs, users) ==
    \E slug \in slugs, userId \in users : GetLinksForProjectCall(p, slug, userId)

\* the keys that are created explicitly and clicked where the reserved key
\* adds no case
DomainKeys == {"abc1234", "xyz7890"}

\* a call starts while the budget lasts
Begin(max) == calls < max /\ calls' = calls + 1

(***************************************************************************)
(* Spec: one caller on the primary domain; its calls run one after the     *)
(* other.                                                                  *)
(***************************************************************************)
Next ==
    \/ \E p \in {"p1"} :
        \/ Begin(MaxCalls) /\ AddLink(p, {PrimaryDomain}, Keys \cup {NoKey}, {NoTitle}, Users \cup {NoUser})
        \/ Begin(MaxCalls) /\ EditLink(p, {PrimaryDomain}, Keys, Users \cup {NoUser})
        \/ Begin(MaxCalls) /\ RecordClick(p, {PrimaryDomain}, DomainKeys)
        \/ UNCHANGED calls /\ SetRandomKeyRetry(p)
        \/ UNCHANGED calls /\ AddLinkZadd(p)
        \/ UNCHANGED calls /\ EditLinkZcard(p)
        \/ UNCHANGED calls /\ EditLinkExec(p)
    \/ Tick

Spec == Init /\ [][Next]_vars

(***************************************************************************)
(* SpecConc: two callers create links and probe for free keys on both      *)
(* hostnames; their requests interleave in every order.  The clock stands  *)
(* still: the callers' records differ in their titles.                     *)
(***************************************************************************)
NextConc ==
    \E p \in Callers :
        \/ Begin(MaxConcCalls) /\ AddLink(p, Hostnames, Keys \cup {NoKey}, CreateTitles, {NoUser})
        \/ Begin(MaxConcCalls) /\ GetRandomKey(p)
        \/ UNCHANGED calls /\ SetRandomKeyRetry(p)
        \/ UNCHANGED calls /\ AddLinkZadd(p)
        \/ UNCHANGED calls /\ GetRandomKeyRetry(p)

SpecConc == Init /\ [][NextConc]_vars

(***************************************************************************)
(* SpecDomain: one caller creates links under explicit keys, records       *)
(* clicks, moves namespaces between the two hostnames and lists the links  *)
(* of a hostname.  The clock stands still: a rename reads no score and no  *)
(* timestamp.                                                              *)
(***************************************************************************)
NextDomain ==
    \E p \in {"p1"} :
        \/ Begin(MaxDomainCalls) /\ AddLink(p, Hostnames, DomainKeys, {"T1"}, Users \cup {NoUser})
        \/ Begin(MaxDomainCalls) /\ RecordClick(p, Hostnames, DomainKeys \cup {NoKey})
        \/ Begin(MaxDomainCalls) /\ ChangeDomain(p)
        \/ Begin(MaxDomainCalls) /\ GetLinksForProject(p, Hostnames, {NoUser})
        \/ UNCHANGED calls /\ AddLinkZadd(p)
        \/ UNCHANGED calls /\ ChangeDomainExec(p)
        \/ UNCHANGED calls /\ GetLinksForProjectHmget(p)

SpecDomain == Init /\ [][NextDomain]_vars

(***************************************************************************)
(* SpecRandom: two callers create links on the primary domain under        *)
(* explicit and generated keys.  nanoid() is fair: a caller that keeps     *)
(* retrying draws every key of the key space again and again.              *)
(***************************************************************************)
RandomRetry(p, key) == UNCHANGED calls /\ SetRandomKeyRetryKey(p, key)

NextRandom ==
    \E p \in Callers :
        \/ Begin(MaxRandomCalls) /\ AddLink(p, {PrimaryDomain}, DomainKeys \cup {NoKey}, {NoTitle}, {NoUser})
        \/ \E key \in NanoidKeys : RandomRetry(p, key)
        \/ UNCHANGED calls /\ AddLinkZadd(p)

SpecRandom ==
    /\ Init /\ [][NextRandom]_vars
    /\ \A p \in Callers : \A key \in NanoidKeys : WF_vars(RandomRetry(p, key))

(***************************************************************************)
(* SpecRace: two callers create, click and edit links of the primary       *)
(* domain; the requests of an editLink (hexists, zcard, pipeline)          *)
(* interleave with the requests of the other caller.  The clock stands     *)
(* still.                                                                  *)
(***************************************************************************)
NextRace ==
    \E p \in Callers :
        \/ Begin(MaxRaceCalls) /\ AddLink(p, {PrimaryDomain}, DomainKeys, {NoTitle}, {NoUser})
        \/ Begin(MaxRaceCalls) /\ EditLink(p, {PrimaryDomain}, DomainKeys, {NoUser})
        \/ Begin(MaxRaceCalls) /\ RecordClick(p, {PrimaryDomain}, DomainKeys)
        \/ UNCHANGED calls /\ AddLinkZadd(p)
        \/ UNCHANGED calls /\ EditLinkZcard(p)
        \/ UNCHANGED calls /\ EditLinkExec(p)

SpecRace == Init /\ [][NextRace]_vars

(***************************************************************************)
(* SpecUsage: one caller creates links on a custom domain, records keyed   *)
(* and root clicks and reads the usage, while the clock advances.          *)
(***************************************************************************)
UsageDomain == "ex.test"

NextUsage ==
    \/ \E p \in {"p1"} :
        \/ Begin(MaxUsageCalls) /\ AddLink(p, {UsageDomain}, DomainKeys, {NoTitle}, {NoUser})
        \/ Begin(MaxUsageCalls) /\ RecordClick(p, {UsageDomain}, DomainKeys \cup {NoKey})
        \/ Begin(MaxUsageCalls) /\ GetUsage(p, {UsageDomain})
        \/ UNCHANGED calls /\ AddLinkZadd(p)
        \/ UNCHANGED calls /\ GetUsageZrange(p)
        \/ UNCHANGED calls /\ GetUsageExec(p)
        \/ UNCHANGED calls /\ GetUsageSetex(p)
    \/ Tick

SpecUsage == Init /\ [][NextUsage]_vars

(***************************************************************************)
(* Properties.                                                             *)
(***************************************************************************)
AllIdle == \A p \in Callers : pc[p] = "idle"
Links(d, hostname) == d[LinksName(hostname)]
Index(d, hostname, userId) == d[TimestampsName(hostname, userId)]
\* a step in which caller p enters addLink: it was idle, and it has either
\* returned from addLink or is inside it
AddLinkBegins(p) ==
    /\ pc[p] = "idle"
    /\ \/ ret'[p].op = "addLink"
       \/ pc'[p] \in {"addLink_zadd", "setRandomKey"}

\* a step in which caller p enters editLink
EditLinkBegins(p) ==
    /\ pc[p] = "idle"
    /\ \/ ret'[p].op = "editLink"
       \/ pc'[p] = "editLink_zcard"

NonNull(v) == v.t # "null" /\ v.t # "pending"

\* C1: between calls, every field of `<hostname>:links` is a member of the
\* primary index `<hostname>:links:timestamps` and, if addLink created it
\* under a userId, of `<hostname>:links:timestamps:<userId>`.
C1_HashKeysAreIndexed ==
    AllIdle =>
        \A h \in Hostnames : \A k \in DOMAIN Links(db, h) :
            /\ Has(Index(db, h, NoUser), k)
            /\ \A u \in Users : <<h, k, u>> \in createdUnder => Has(Index(db, h, u), k)

\* C2: addLink with an explicit key that is already a field of
\* `<hostname>:links` returns null and changes no collection: the record
\* and both timestamp indexes stay as they were.
C2_ExistingKeyKept ==
    [][\A p \in Callers, h \in Hostnames, k \in Keys :
          (AddLinkBegins(p) /\ Has(Links(db, h), k)) =>
              \A t \in CreateTitles, u \in Users \cup {NoUser} :
                  AddLinkCall(p, h, CreateUrl, k, t, u)
                  => /\ pc'[p] = "idle"
                     /\ ret'[p].value.t = "null"
                     /\ db' = db]_vars

\* an addLink of an existing explicit key has returned null, and the clock
\* has moved on since the record was written
C2_Witness ==
    /\ ret["p1"].op = "addLink" /\ ret["p1"].path = "exists"
    /\ ret["p1"].value.t = "null"
    /\ Has(Links(db, ret["p1"].hostname), ret["p1"].key)
    /\ Links(db, ret["p1"].hostname)[ret["p1"].key].timestamp < now

\* caller p created (hostname, key): its hsetnx answered 1, and it is about
\* to write the index or has returned non-null
Created(p, h, k) ==
    \/ /\ pc[p] = "addLink_zadd"
       /\ call[p].hostname = h /\ call[p].written = k
    \/ /\ ret[p].op = "addLink" /\ NonNull(ret[p].value)
       /\ ret[p].hostname = h /\ ret[p].key = k

\* the record caller p wrote when it created (hostname, key)
CreatedRecord(p) ==
    IF pc[p] = "addLink_zadd"
    THEN LinkRecord(call[p].url,
                    IF Truthy(call[p].title) THEN call[p].title
                    ELSE getTitleFromUrl(call[p].url), call[p].stamp)
    ELSE ret[p].record

\* C3: of two callers that run addLink on the same hostname and explicit
\* key, at most one gets a non-null result, and the record under the key is
\* the one that caller wrote.
C3_OneCreatorWins ==
    \A p \in Callers, h \in Hostnames, k \in Keys :
        Created(p, h, k) =>
            /\ \A q \in Callers \ {p} : ~Created(q, h, k)
            /\ Has(Links(db, h), k)
            /\ Links(db, h)[k] = CreatedRecord(p)

\* both callers have returned from addLink of the same key with different
\* titles: p1 with the zadd's reply, p2 with null
C3_Witness ==
    /\ AllIdle
    /\ ret["p1"].op = "addLink" /\ NonNull(ret["p1"].value)
    /\ ret["p2"].op = "addLink" /\ ret["p2"].path = "exists"
    /\ ret["p2"].value.t = "null"
    /\ ret["p1"].hostname = ret["p2"].hostname
    /\ ret["p1"].key = ret["p2"].key
    /\ Links(db, ret["p1"].hostname)[ret["p1"].key].title = "T1"

\* C4: the key setRandomKey wrote, and the key getRandomKey returned, was
\* no field of `<hostname>:links` before the call and is no reserved key on
\* the primary domain.
C4_RandomKeyFreshAndUnreserved ==
    \A p \in Callers :
        /\ (ret[p].op = "addLink" /\ ret[p].path = "random") =>
              /\ ret[p].key \notin ret[p].before
              /\ ret[p].hostname = PrimaryDomain => ret[p].key \notin RESERVED_KEYS
        /\ ret[p].op = "getRandomKey" =>
              /\ ret[p].value.v \notin ret[p].before
              /\ ret[p].hostname = PrimaryDomain => ret[p].value.v \notin RESERVED_KEYS

\* C5: no reserved key is a field of `dub.sh:links` or a member of a
\* `dub.sh:links:timestamps` index.
C5_NoReservedKeyStored ==
    \A k \in RESERVED_KEYS :
        /\ ~Has(Links(db, PrimaryDomain), k)
        /\ \A u \in Users \cup {NoUser} : ~Has(Index(db, PrimaryDomain, u), k)

\* C6: addLink on the primary domain with an explicit reserved key returns
\* null and writes nothing: no collection and no usage cache changes.
C6_ReservedCreateWritesNothing ==
    [][\A p \in Callers, k \in RESERVED_KEYS, t \in CreateTitles,
          u \in Users \cup {NoUser} :
          (AddLinkBegins(p) /\ AddLinkCall(p, PrimaryDomain, CreateUrl, k, t, u))
          => /\ pc'[p] = "idle"
             /\ ret'[p].value.t = "null"
             /\ db' = db
             /\ usage' = usage]_vars

\* an addLink of a reserved key has returned null on the primary domain
C6_Witness ==
    /\ ret["p1"].op = "addLink" /\ ret["p1"].path = "reserved"
    /\ ret["p1"].value.t = "null"
    /\ ret["p1"].hostname = PrimaryDomain
    /\ ret["p1"].key \in RESERVED_KEYS

\* C7: the batch of editLink with key != newKey (newKey passed the
\* existence check) leaves oldKey out of the hash, of every timestamp index
\* and of the click logs, and newKey in the hash with the given record, in
\* the index with score = timestamp, owning the click events oldKey had.
C7_RenameMovesEverything ==
    [][\A p \in Callers :
          EditLinkExec(p) =>
              LET c == call[p]
                  h == c.hostname
              IN  /\ ~Has(Links(db', h), c.key)
                  /\ \A u \in Users \cup {NoUser} : ~Has(Index(db', h, u), c.key)
                  /\ ~Exists(db', ClicksName(h, c.key))
                  /\ Has(Links(db', h), c.newKey)
                  /\ Links(db', h)[c.newKey] = LinkRecord(c.url, c.title, c.timestamp)
                  /\ Has(Index(db', h, c.userId), c.newKey)
                  /\ Index(db', h, c.userId)[c.newKey] = c.timestamp
                  /\ db'[ClicksName(h, c.newKey)] = db[ClicksName(h, c.key)]]_vars

\* C7 amended: the batch removes oldKey from the hash and from the index
\* that userId selects, and leaves the other indexes alone; newKey is in the
\* hash with the given record and in that index with score = timestamp; if
\* oldKey had a click log it now belongs to newKey, otherwise newKey keeps
\* the click log it had.
C7_RenameMovesSelectedIndex ==
    [][\A p \in Callers :
          EditLinkExec(p) =>
              LET c == call[p]
                  h == c.hostname
                  selected == TimestampsName(h, c.userId)
              IN  /\ ~Has(Links(db', h), c.key)
                  /\ ~Has(db'[selected], c.key)
                  /\ \A u \in Users \cup {NoUser} :
                        TimestampsName(h, u) # selected
                        => Index(db', h, u) = Index(db, h, u)
                  /\ Has(Links(db', h), c.newKey)
                  /\ Links(db', h)[c.newKey] = LinkRecord(c.url, c.title, c.timestamp)
                  /\ Has(db'[selected], c.newKey)
                  /\ db'[selected][c.newKey] = c.timestamp
                  /\ IF Exists(db, ClicksName(h, c.key))
                     THEN /\ ~Exists(db', ClicksName(h, c.key))
                          /\ db'[ClicksName(h, c.newKey)] = db[ClicksName(h, c.key)]
                     ELSE /\ ~Exists(db', ClicksName(h, c.key))
                          /\ db'[ClicksName(h, c.newKey)] = db[ClicksName(h, c.newKey)]]_vars

\* a rename of an indexed, clicked key has returned: its batch had five
\* commands, the new key is indexed and owns a click log
C7_Witness ==
    /\ ret["p1"].op = "editLink" /\ ret["p1"].path = "renamed"
    /\ ret["p1"].value.t = "array" /\ Len(ret["p1"].value.v) = 5
    /\ ret["p1"].value.v[3].v = 1
    /\ \E k \in DOMAIN Links(db, PrimaryDomain), u \in Users \cup {NoUser} :
          /\ Links(db, PrimaryDomain)[k].url = EditUrl
          /\ Has(Index(db, PrimaryDomain, u), k)
          /\ Exists(db, ClicksName(PrimaryDomain, k))

\* C8: editLink with key == newKey replaces the record in
\* `<hostname>:links` and leaves every other collection (timestamp indexes
\* with their scores, click logs) unchanged.
C8_SameKeyEditOnlyRecord ==
    [][\A p \in Callers, h \in Hostnames, k \in Keys, ts \in EditTimestamps,
          u \in Users \cup {NoUser} :
          ( /\ EditLinkBegins(p)
            /\ ret'[p].path = "same"
            /\ EditLinkCall(p, h, k, k, EditUrl, EditTitle, ts, u) )
          => /\ Links(db', h) = Put(Links(db, h), k, LinkRecord(EditUrl, EditTitle, ts))
             /\ \A n \in Names \ {LinksName(h)} : db'[n] = db[n]]_vars

\* a same-key edit has returned for a clicked key whose index score is not
\* the timestamp the edit wrote
C8_Witness ==
    /\ ret["p1"].op = "editLink" /\ ret["p1"].path = "same"
    /\ \E k \in DOMAIN Links(db, PrimaryDomain), u \in Users \cup {NoUser} :
          /\ Links(db, PrimaryDomain)[k].url = EditUrl
          /\ Has(Index(db, PrimaryDomain, u), k)
          /\ Index(db, PrimaryDomain, u)[k] # Links(db, PrimaryDomain)[k].timestamp
          /\ Exists(db, ClicksName(PrimaryDomain, k))

\* C9: editLink with key != newKey returns null and changes no collection
\* when newKey is reserved on the primary domain or is already a field of
\* `<hostname>:links`.
C9_RejectedRenameWritesNothing ==
    [][\A p \in Callers, h \in Hostnames, nk \in Keys :
          ( /\ EditLinkBegins(p)
            /\ \/ h = PrimaryDomain /\ nk \in RESERVED_KEYS
               \/ Has(Links(db, h), nk) ) =>
              \A k \in Keys \ {nk}, ts \in EditTimestamps, u \in Users \cup {NoUser} :
                  EditLinkCall(p, h, k, nk, EditUrl, EditTitle, ts, u)
                  => /\ pc'[p] = "idle"
                     /\ ret'[p].value.t = "null"
                     /\ db' = db
                     /\ usage' = usage]_vars

\* a rename onto an existing key has returned null with both records of the
\* hash still as addLink wrote them
C9_Witness ==
    /\ ret["p1"].op = "editLink" /\ ret["p1"].path = "exists"
    /\ ret["p1"].value.t = "null"
    /\ Cardinality(DOMAIN Links(db, PrimaryDomain)) = 2
    /\ \A k \in DOMAIN Links(db, PrimaryDomain) :
          Links(db, PrimaryDomain)[k].url = CreateUrl

\* the collections of a hostname that changeDomain renames
NamespaceNames(h) ==
    {LinksName(h), TimestampsName(h, NoUser), RootClicksName(h)}
    \cup {ClicksName(h, k) : k \in Keys}

NamespaceOf(d, h) == [n \in NamespaceNames(h) |-> d[n]]

EmptyNamespace(d, h) == \A n \in NamespaceNames(h) : ~Exists(d, n)

\* changeDomain(H, H2) and then changeDomain(H2, H) have run on a namespace
\* H that had at least one key and at least one clicked key
RoundTripDone ==
    /\ rt.stage = 2
    /\ DOMAIN Links(rt.before, rt.hostname) # {}
    /\ \E k \in DOMAIN Links(rt.before, rt.hostname) :
          Exists(rt.before, ClicksName(rt.hostname, k))

\* C10 as stated: the round trip leaves the links hash, the timestamp
\* index, the root click log and every per-key click log of H as they were.
C10_RoundTripRestores ==
    RoundTripDone => NamespaceOf(db, rt.hostname) = NamespaceOf(rt.before, rt.hostname)

\* C10 amended: the same, when the namespace H2 held no collection before
\* the first call.
C10_RoundTripRestoresFromEmptyTarget ==
    (RoundTripDone /\ EmptyNamespace(rt.before, rt.newHostname))
    => NamespaceOf(db, rt.hostname) = NamespaceOf(rt.before, rt.hostname)

\* a round trip through an empty H2 is done, and every rename of the way
\* back succeeded
C10_Witness ==
    /\ RoundTripDone
    /\ EmptyNamespace(rt.before, rt.newHostname)
    /\ ret["p1"].op = "changeDomain" /\ ret["p1"].path = "renamed"

\* the collections of `hostname` that changeDomain's batch renames, given the
\* keys it enumerated
BatchSources(hostname, keys) ==
    {LinksName(hostname), TimestampsName(hostname, NoUser), RootClicksName(hostname)}
    \cup {ClicksName(hostname, keys[i]) : i \in 1..Len(keys)}

\* the same collection under another hostname
Under(newHostname, name) == <<newHostname, name[2], name[3]>>

\* C11 as stated: when a rename of changeDomain's batch fails, changeDomain
\* returns null and no collection has moved: the keyspace is as it was.
C11_FailedChangeDomainMovesNothing ==
    [][\A p \in Callers :
          ( /\ ChangeDomainExec(p)
            /\ PipelineExec(db, ChangeDomainPipeline(call[p].hostname,
                                    call[p].newHostname, call[p].keys)).res.t = "throws" )
          => /\ ret'[p].value.t = "null"
             /\ db' = db]_vars

\* C14: every recordClick adds exactly one event to exactly one click log
\* (the key's log, or the root log when no key is given) and changes no
\* other collection.
C14_EveryClickAppends ==
    [][\A p \in Callers, h \in Hostnames, req \in Requests, k \in Keys \cup {NoKey} :
          (pc[p] = "idle" /\ ret'[p].op = "recordClick"
           /\ RecordClickCall(p, h, req, k)) =>
              LET log == IF Truthy(k) THEN ClicksName(h, k) ELSE RootClicksName(h)
              IN  /\ Cardinality(DOMAIN db'[log]) = Cardinality(DOMAIN db[log]) + 1
                  /\ \A n \in Names \ {log} : db'[n] = db[n]]_vars

\* C15: an addLink without a key that has returned after its generated key
\* was written returned non-null, and the generated key is in the timestamp
\* index.
C15_RandomCreateSucceeds ==
    \A p \in Callers :
        (ret[p].op = "addLink" /\ ret[p].path = "random") =>
            /\ NonNull(ret[p].value)
            /\ \E u \in Users \cup {NoUser} :
                  Has(Index(db, ret[p].hostname, u), ret[p].key)

\* C17: addLink's index entry carries the timestamp of the record it
\* created, and after a rename the score of newKey is the record's
\* timestamp.
C17_ScoreEqualsTimestamp ==
    [][\A p \in Callers :
          /\ AddLinkZadd(p) =>
                LET c == call[p]
                IN  Index(db', c.hostname, c.userId)[c.key]
                        = Links(db', c.hostname)[c.key].timestamp
          /\ EditLinkExec(p) =>
                LET c == call[p]
                IN  Index(db', c.hostname, c.userId)[c.newKey]
                        = Links(db', c.hostname)[c.newKey].timestamp]_vars

\* the key space of nanoid() is used up on the hostname
KeySpaceFull(h) == NanoidKeys \subseteq DOMAIN Links(db, h)

\* C20: a setRandomKey that collided retries until it returns, unless no
\* key of the key space is free; and it returns a key only in a step whose
\* hsetnx wrote that key as a new field.
C20_RandomKeyEventuallySet ==
    /\ \A p \in Callers :
          (pc[p] = "setRandomKey")
              ~> (pc[p] # "setRandomKey" \/ KeySpaceFull(call[p].hostname))
    /\ [][\A p \in Callers :
            (ret'[p] # ret[p] /\ ret'[p].op = "addLink" /\ ret'[p].path = "random")
            => /\ ~Has(Links(db, ret'[p].hostname), ret'[p].key)
               /\ Has(Links(db', ret'[p].hostname), ret'[p].key)]_vars

\* a setRandomKey that collided at least once has returned its key
C20_Witness ==
    \E p \in Callers :
        /\ ret[p].op = "addLink" /\ ret[p].path = "random"
        /\ ret[p].collided
        /\ Has(Links(db, ret[p].hostname), ret[p].key)

\* C11 amended: when a rename of the batch fails, changeDomain returns
\* null, and the batch is not undone: every collection it names that
\* exists has moved to the new hostname (replacing what was there), the
\* ones that do not exist leave their target as it was, and no other
\* collection changes.
C11_FailedChangeDomainKeepsRenames ==
    [][\A p \in Callers :
          ( /\ ChangeDomainExec(p)
            /\ \E n \in BatchSources(call[p].hostname, call[p].keys) : ~Exists(db, n) )
          => LET h == call[p].hostname
                 h2 == call[p].newHostname
                 sources == BatchSources(h, call[p].keys)
                 targets == {Under(h2, n) : n \in sources}
             IN  /\ ret'[p].value.t = "null"
                 /\ h = h2 => db' = db
                 /\ h # h2 =>
                       /\ \A n \in sources :
                             IF Exists(db, n)
                             THEN db'[Under(h2, n)] = db[n] /\ ~Exists(db', n)
                             ELSE db'[Under(h2, n)] = db[Under(h2, n)]
                       /\ \A n \in Names \ (sources \cup targets) : db'[n] = db[n]]_vars

\* a changeDomain whose batch had a failing rename has returned null, and
\* the links hash and the index are under the new hostname
C11_Witness ==
    /\ ret["p1"].op = "changeDomain" /\ ret["p1"].path = "caught"
    /\ ret["p1"].value.t = "null"
    /\ rt.stage = 1 /\ rt.hostname # rt.newHostname
    /\ Exists(rt.before, LinksName(rt.hostname))
    /\ ~Exists(db, LinksName(rt.hostname))
    /\ Links(db, rt.newHostname) = Links(rt.before, rt.hostname)
    /\ Index(db, rt.newHostname, NoUser) = Index(rt.before, rt.hostname, NoUser)
    /\ Exists(db, TimestampsName(rt.newHostname, NoUser))

\* C18: the batch of an editLink rename never replaces a record that is
\* stored under newKey when the batch runs: a record another caller's
\* addLink wrote after the existence check stays as it is.
C18_RenameKeepsConcurrentCreate ==
    [][\A p \in Callers :
          EditLinkExec(p) =>
              LET h == call[p].hostname
                  nk == call[p].newKey
              IN  Has(Links(db, h), nk) => Links(db', h)[nk] = Links(db, h)[nk]]_vars

\* C19: after the batch of an editLink rename, oldKey has no click log and
\* every event that was in oldKey's log when the batch ran is in newKey's.
C19_RenameMovesEveryClick ==
    [][\A p \in Callers :
          EditLinkExec(p) =>
              LET h == call[p].hostname
                  old == ClicksName(h, call[p].key)
                  new == ClicksName(h, call[p].newKey)
              IN  /\ ~Exists(db', old)
                  /\ DOMAIN db[old] \subseteq DOMAIN db'[new]]_vars

\* the clicks of `keys` on `hostname` whose score lies in [firstDay, lastDay]
RECURSIVE ClicksInWindow(_, _, _, _, _)
ClicksInWindow(d, hostname, keys, firstDay, lastDay) ==
    IF keys = {} THEN 0
    ELSE LET key == CHOOSE k \in keys : TRUE
             clicks == d[ClicksName(hostname, key)]
         IN  Cardinality({m \in DOMAIN clicks :
                             firstDay <= clicks[m] /\ clicks[m] <= lastDay})
             + ClicksInWindow(d, hostname, keys \ {key}, firstDay, lastDay)

\* C12: a getUsage that finds a live cache entry (any value, 0 included)
\* returns that entry's value, whatever was clicked since it was written;
\* a getUsage that finds none returns the freshly computed sum.
C12_CachedUsageIsReturned ==
    \A p \in Callers :
        ret[p].op = "getUsage" =>
            IF ret[p].cachedUsage.t # "null"
            THEN ret[p].value = ret[p].cachedUsage
            ELSE ret[p].path = "computed"

\* C13: a getUsage that misses the cache returns and caches the number of
\* clicks, inside the window, of exactly the keys of the primary index; the
\* root clicks are not counted.
C13_ComputedUsageIsIndexSum ==
    \A p \in Callers :
        (ret[p].op = "getUsage" /\ ret[p].path = "computed") =>
            LET h == ret[p].hostname
                sum == ClicksInWindow(db, h, DOMAIN Index(db, h, NoUser),
                                      ret[p].firstDay, ret[p].lastDay)
            IN  /\ ret[p].value = Num(sum)
                /\ usage[h].t = "entry"
                /\ usage[h].value = Num(sum)

\* a computed usage that counted a click and left out a root click and a
\* keyed click outside the window
C13_Witness ==
    \E p \in Callers :
        /\ ret[p].op = "getUsage" /\ ret[p].path = "computed"
        /\ ret[p].value.v >= 1
        /\ db[RootClicksName(ret[p].hostname)] # EmptyMap
        /\ \E key \in DomainKeys :
              LET clicks == db[ClicksName(ret[p].hostname, key)]
              IN  \E m \in DOMAIN clicks : clicks[m] < ret[p].firstDay

\* C16: getLinksForProject completes, lists the keys of the index by
\* decreasing score, and lists only keys that have a record in the hash,
\* also when some or all keys of the index have none.
C16_ListIsOrderedAndValid ==
    \A p \in Callers :
        ret[p].op = "getLinksForProject" =>
            /\ ret[p].value.t = "array"
            /\ LET links == ret[p].value.v
                   index == Index(db, ret[p].slug, ret[p].userId)
               IN  /\ \A i \in 1..Len(links) :
                          /\ Has(Links(db, ret[p].slug), links[i].key)
                          /\ links[i].fields.t = "object"
                   /\ \A i, j \in 1..Len(links) :
                          i < j => index[links[i].key] >= index[links[j].key]

====
